---- MODULE Spec2Model ----
(***************************************************************************)
(* Model of medical.py, a Streamlit script.  Streamlit executes the whole  *)
(* script top to bottom once per user interaction (a "run"); st.session_   *)
(* state and the keyed widgets' values survive between runs, the script's  *)
(* own variables and the rendered page do not.  One action per statement   *)
(* group of the script, in program order, driven by pc.                    *)
(*                                                                         *)
(* Python values are tagged records: None, Str(<<tokens>>), Bytes(<<..>>). *)
(* A string is a sequence of tokens, so that f-string interpolation is     *)
(* concatenation and "contains" is a sub-sequence test.                    *)
(***************************************************************************)
EXTENDS Naturals, Sequences, FiniteSets

\* ------------------------------------------------------------------ bounds
\* Number of script runs (user interactions) in a session.
MaxRuns == 3
\* Candidates per image response, and content parts per response (over all
\* its candidates), of the response shapes SpecExtract enumerates.
MaxCands == 2
MaxParts == 2

\* ----------------------------------------------------------- Python values
None == [t |-> "None"]
Str(s) == [t |-> "str", v |-> s]
Bytes(b) == [t |-> "bytes", v |-> b]

\* Python truthiness of None, a str or a bytes object.
Truthy(x) == x.t # "None" /\ Len(x.v) > 0

\* str(x) as done by an f-string placeholder.
Format(x) == IF x.t = "None" THEN <<"None">> ELSE x.v

\* str(age) for the ages of the model.
FormatInt(n) == IF n = 0 THEN <<"0">> ELSE <<"30">>

RECURSIVE Tuples(_, _)
\* All sequences over S of length exactly n.
Tuples(S, n) == IF n = 0 THEN {<<>>}
                ELSE {Append(s, x) : s \in Tuples(S, n - 1), x \in S}

\* sub occurs in s as a contiguous block (Python: sub in s).
Contains(s, sub) ==
    \E i \in 0..(Len(s) - Len(sub)) :
        \A j \in 1..Len(sub) : s[i + j] = sub[j]

IsPrefix(s, t) == Len(s) <= Len(t) /\ \A i \in 1..Len(s) : s[i] = t[i]

\* ------------------------------------------------------------- environment
\* os.getenv("GOOGLE_API_KEY"): unset, set to the empty string, or set.
ApiKeys == {None, Str(<<>>), Str(<<"key">>)}

\* What the user can submit in the chat box / type in the disease field.
ChatInputs == {Str(<<"fever">>)}
DiseaseNames == {Str(<<"flu">>)}
Names == {Str(<<>>), Str(<<"Ann">>)}
Ages == {0, 30}
Genders == {"Male", "Female", "Other"}

\* Text a successful text call returns, and messages a failed call carries.
Texts == {Str(<<"Rest", "and", "hydration">>)}
Messages == {<<"429", "quota">>}

\* Exceptions: a class and the message str(e) gives.
Exc(cls, msg) == [cls |-> cls, msg |-> msg]
RemoteErrors == {Exc("ClientError", m) : m \in Messages}
IndexError == Exc("IndexError", <<"list index out of range">>)
TypeErrorIter == Exc("TypeError", <<"'NoneType' object is not iterable">>)
UnidentifiedImageError == Exc("UnidentifiedImageError", <<"cannot identify image file">>)

\* Raw image payloads: a decodable image and an undecodable blob.
JpegA == Bytes(<<"JPEG", "plate">>)
Junk == Bytes(<<"junk">>)

\* Content parts of a response: a text part (inline_data is None), a part
\* whose inline_data holds no bytes, and parts with inline bytes.
TextPart == [text |-> Str(<<"caption">>), inline_data |-> None]
Blob(b) == [text |-> None, inline_data |-> [t |-> "Blob", data |-> b]]
PartKinds == {TextPart, Blob(Bytes(<<>>)), Blob(JpegA), Blob(Junk)}

\* A candidate: content.parts is None (absent) or a list of parts.
Candidate(parts) == [parts |-> parts]
PartList(ps) == [t |-> "list", v |-> ps]
CandidatesWith(k) == {Candidate(PartList(ps)) : ps \in Tuples(PartKinds, k)} \cup
                     (IF k = 0 THEN {Candidate(None)} ELSE {})

RECURSIVE CandidateLists(_, _)
\* Lists of exactly c candidates holding at most p parts in all.
CandidateLists(c, p) ==
    IF c = 0 THEN {<<>>}
    ELSE UNION {{<<cand>> \o rest : cand \in CandidatesWith(k),
                                    rest \in CandidateLists(c - 1, p - k)} : k \in 0..p}

\* Image responses with at most c candidates and at most p parts in all.
ResponsesUpTo(c, p) ==
    {[candidates |-> cs] : cs \in UNION {CandidateLists(n, p) : n \in 0..c}}

\* Every response shape within the bounds.
AllResponses == ResponsesUpTo(MaxCands, MaxParts)
\* The shapes with at most one candidate of at most one part.
CoreResponses == ResponsesUpTo(1, 1)

\* The value of a response variable before the call has returned.
Unassigned == [candidates |-> <<>>, unassigned |-> TRUE]
NoOutcome == [ok |-> FALSE, unassigned |-> TRUE]
Unbound == [t |-> "unbound"]

\* ------------------------------------------------------- pure computations
Ok(v) == [ok |-> TRUE, value |-> v]
Raise(e) == [ok |-> FALSE, exc |-> e]

RECURSIVE FirstInline(_)
\* next((part.inline_data.data for part in parts
\*       if part.inline_data and part.inline_data.data), None)
FirstInline(parts) ==
    IF parts = <<>> THEN None
    ELSE IF Head(parts).inline_data.t # "None" /\ Truthy(Head(parts).inline_data.data)
         THEN Head(parts).inline_data.data
         ELSE FirstInline(Tail(parts))

RECURSIVE ScanCandidates(_)
ScanCandidates(cs) ==
    IF cs = <<>> THEN None
    ELSE IF Head(cs).parts.t # "None" /\ FirstInline(Head(cs).parts.v) # None
         THEN FirstInline(Head(cs).parts.v)
         ELSE ScanCandidates(Tail(cs))

\* Mutant of ExtractImage: the scan goes on through the later candidates.
ExtractImageAllCandidates(resp) ==
    IF Len(resp.candidates) = 0 THEN Raise(IndexError)
    ELSE IF resp.candidates[1].parts.t = "None" THEN Raise(TypeErrorIter)
    ELSE Ok(ScanCandidates(resp.candidates))

\* The extraction expression as a whole: candidates[0] raises IndexError on
\* an empty list, iterating content.parts raises TypeError when it is None.
ExtractImage(resp) ==
    IF Len(resp.candidates) = 0 THEN Raise(IndexError)
    ELSE IF resp.candidates[1].parts.t = "None" THEN Raise(TypeErrorIter)
    ELSE Ok(FirstInline(resp.candidates[1].parts.v))

\* Image.open(BytesIO(b)); img.save(buffered, format="PNG");
\* base64.b64encode(buffered.getvalue()).decode()
ImageCodec(b) ==
    IF b.v[1] \in {"JPEG", "PNG"}
    THEN Ok(Str(<<"base64", "PNG">> \o Tail(b.v)))
    ELSE Raise(UnidentifiedImageError)

\* Prompts (f-strings): the fixed wording is one token per stretch.
TextPrompt(n, a, g, topic) ==
    <<"medical assistant; WHO, Mayo Clinic, WebMD; Patient Name:">> \o Format(n)
    \o <<"Age:">> \o FormatInt(a) \o <<"Gender:", g, "The user asked:">> \o Format(topic)
    \o <<"Include:", "Symptoms", "Treatments", "Medicines", "Nutrition suggestions">>
ChatNutritionPrompt(a, g, topic) ==
    <<"Photorealistic nutrition plate for symptoms:">> \o Format(topic)
    \o <<"Age:">> \o FormatInt(a) \o <<"Gender:", g, "WHO or Mayo Clinic guidance">>
ChatMedicinePrompt(topic) ==
    <<"High-resolution image of medicines based on symptoms:">> \o Format(topic)
    \o <<"WHO or Mayo Clinic guidance. White background.">>
DiseasePrompt(topic) ==
    <<"trusted medical assistant; explain the disease:">> \o Format(topic)
    \o <<"WHO, Mayo Clinic, or WebMD", "Include:", "Description", "Common symptoms",
         "Recommended treatments", "Suggested medicines", "Nutrition advice">>
DiseaseNutritionPrompt(a, g, topic) ==
    <<"Photorealistic nutrition plate for a person with">> \o Format(topic)
    \o <<"WHO/Mayo Clinic dietary guidance", "Age:">> \o FormatInt(a) \o <<"Gender:", g>>
DiseaseMedicinePrompt(topic) ==
    <<"High-resolution image of medicines for">> \o Format(topic)
    \o <<"recommended by WHO or Mayo Clinic. White background.">>

TextModel == "gemini-2.5-flash-preview-05-20"
ImageModel == "gemini-2.0-flash-preview-image-generation"

\* One client.models.generate_content call, as logged by the model.
Call(tab, kind, model, contents) ==
    [tab |-> tab, kind |-> kind, model |-> model, contents |-> contents]

\* Rendered page elements.
El(kind, body) == [kind |-> kind, body |-> body]

\* The two image sections' wording.
ImageTitle(kind) == IF kind = "nutrition" THEN "Nutrition Suggestion" ELSE "Medicine Reference"
NoImageNotice(kind) ==
    IF kind = "nutrition" THEN <<"No nutrition image received.">>
    ELSE <<"No medicine image received.">>
ImageErrorPrefix(kind) ==
    IF kind = "nutrition" THEN <<"Nutrition image error:">> ELSE <<"Medicine image error:">>

\* Mutant of RenderImage: a decode failure is swallowed, nothing is rendered.
RenderImageSilent(kind, resp) ==
    LET x == ExtractImage(resp) IN
    IF ~x.ok THEN <<El("error", ImageErrorPrefix(kind) \o x.exc.msg)>>
    ELSE IF ~Truthy(x.value) THEN <<El("warning", NoImageNotice(kind))>>
    ELSE LET c == ImageCodec(x.value) IN
         IF ~c.ok THEN <<>>
         ELSE <<El("markdown", <<ImageTitle(kind)>>), El("image", c.value.v)>>

\* What the body of an image section's try block renders for a response:
\* the extraction, then the decode, all under one `except Exception`.
RenderImage(kind, resp) ==
    LET x == ExtractImage(resp) IN
    IF ~x.ok THEN <<El("error", ImageErrorPrefix(kind) \o x.exc.msg)>>
    ELSE IF ~Truthy(x.value) THEN <<El("warning", NoImageNotice(kind))>>
    ELSE LET c == ImageCodec(x.value) IN
         IF ~c.ok THEN <<El("error", ImageErrorPrefix(kind) \o c.exc.msg)>>
         ELSE <<El("markdown", <<ImageTitle(kind)>>), El("image", c.value.v)>>

\* for role, msg in chat_history: st.chat_message(role).write(msg)
RenderHistory(h) ==
    [i \in 1..Len(h) |->
        El(IF h[i][1] = "user" THEN "chat:user" ELSE "chat:assistant", Format(h[i][2]))]

\* -------------------------------------------------------------------- state
VARIABLES
    api_key,        \* os.getenv("GOOGLE_API_KEY"), fixed for the server process
    session_keys,   \* keys present in st.session_state
    chat_history,   \* st.session_state.chat_history
    name, age, gender, disease_name,   \* keyed widgets' values (persist)
    submitted,      \* what the chat box hands to the next run (None: nothing)
    user_input,     \* script variables of the current run
    text_response,  \* what the chat text call gave: its text, or the exception e
    response_text,
    nutrition_response,  \* tab1 nutrition section's response
    img_response,        \* tab2 nutrition section's response
    med_response,        \* both medicine sections' response
    img_bytes,           \* both nutrition sections' extracted bytes
    med_img_bytes,       \* both medicine sections' extracted bytes
    pc,             \* position in the script
    runs,           \* runs started so far
    page,           \* elements rendered by the current run
    calls,          \* generate_content calls issued by the current run
    hist0           \* history variable: chat_history when the run started

vars == <<api_key, session_keys, chat_history, name, age, gender, disease_name,
          submitted, user_input, text_response, response_text,
          nutrition_response, img_response, med_response, img_bytes, med_img_bytes,
          pc, runs, page, calls, hist0>>

widgets == <<name, age, gender, disease_name>>
session == <<session_keys, chat_history>>
responses == <<nutrition_response, img_response, med_response>>
extracted == <<img_bytes, med_img_bytes>>
locals == <<user_input, text_response, response_text, responses, extracted>>

\* The script's image variables by name: their values, and an assignment to
\* one of them that leaves the others as they are.
ResponseOf(var) ==
    CASE var = "nutrition_response" -> nutrition_response
      [] var = "img_response" -> img_response
      [] var = "med_response" -> med_response
BytesOf(var) ==
    CASE var = "img_bytes" -> img_bytes
      [] var = "med_img_bytes" -> med_img_bytes
AssignResponse(var, r) ==
    /\ nutrition_response' = IF var = "nutrition_response" THEN r ELSE nutrition_response
    /\ img_response' = IF var = "img_response" THEN r ELSE img_response
    /\ med_response' = IF var = "med_response" THEN r ELSE med_response
AssignBytes(var, b) ==
    /\ img_bytes' = IF var = "img_bytes" THEN b ELSE img_bytes
    /\ med_img_bytes' = IF var = "med_img_bytes" THEN b ELSE med_img_bytes

Init ==
    /\ api_key \in ApiKeys
    /\ session_keys = {}
    /\ chat_history = <<>>
    /\ name = Str(<<>>) /\ age = 0 /\ gender = "Male" /\ disease_name = Str(<<>>)
    /\ submitted = None
    /\ user_input = None /\ text_response = NoOutcome /\ response_text = None
    /\ nutrition_response = Unassigned /\ img_response = Unassigned
    /\ med_response = Unassigned
    /\ img_bytes = Unbound /\ med_img_bytes = Unbound
    /\ pc = "idle" /\ runs = 0
    /\ page = <<>> /\ calls = <<>>
    /\ hist0 = <<>>

\* A new run starts from the top with fresh script variables and page.
BeginRun ==
    /\ runs < MaxRuns
    /\ runs' = runs + 1
    /\ pc' = "check_key"
    /\ user_input' = None /\ text_response' = NoOutcome /\ response_text' = None
    /\ nutrition_response' = Unassigned /\ img_response' = Unassigned
    /\ med_response' = Unassigned
    /\ img_bytes' = Unbound /\ med_img_bytes' = Unbound
    /\ page' = <<>> /\ calls' = <<>>
    /\ hist0' = chat_history
    /\ UNCHANGED <<api_key, session>>

\* ---------------------------------------------------------- user's actions
\* The page is (re)loaded: a run with no widget changed.
Load ==
    /\ pc \in {"idle", "halted", "done"}
    /\ BeginRun
    /\ submitted' = None
    /\ UNCHANGED widgets

\* The user submits the chat box (it exists once a run has rendered it).
SubmitChat ==
    /\ pc = "done"
    /\ BeginRun
    /\ \E text \in ChatInputs : submitted' = text
    /\ UNCHANGED widgets

\* The user edits the disease field.
EditDisease ==
    /\ pc = "done"
    /\ BeginRun
    /\ \E d \in (DiseaseNames \cup {Str(<<>>)}) \ {disease_name} : disease_name' = d
    /\ submitted' = None
    /\ UNCHANGED <<name, age, gender>>

\* The user edits one sidebar widget.
EditSidebar ==
    /\ pc = "done"
    /\ BeginRun
    /\ \/ \E n \in Names \ {name} : name' = n /\ UNCHANGED <<age, gender>>
       \/ \E a \in Ages \ {age} : age' = a /\ UNCHANGED <<name, gender>>
       \/ \E g \in Genders \ {gender} : gender' = g /\ UNCHANGED <<name, age>>
    /\ submitted' = None
    /\ UNCHANGED disease_name

\* --------------------------------------------------------------- the script
\* Mutant of CheckKey: only an unset key halts, an empty one goes on.
CheckKeyNoneOnly ==
    /\ pc = "check_key"
    /\ IF api_key = None
       THEN /\ page' = Append(page, El("error", <<"Missing GOOGLE_API_KEY in .env">>))
            /\ pc' = "halted"
       ELSE /\ page' = page
            /\ pc' = "setup"
    /\ UNCHANGED <<api_key, session, widgets, submitted, locals, runs, calls, hist0>>

\* Lines 11-18: load the key; st.error and st.stop when it is missing.
CheckKey ==
    /\ pc = "check_key"
    /\ IF ~Truthy(api_key)
       THEN /\ page' = Append(page, El("error", <<"Missing GOOGLE_API_KEY in .env">>))
            /\ pc' = "halted"
       ELSE /\ page' = page
            /\ pc' = "setup"
    /\ UNCHANGED <<api_key, session, widgets, submitted, locals, runs, calls, hist0>>

\* What lines 21-37 render: title, sidebar widgets, tabs.
HeaderElements ==
    <<El("title", <<"AI Medical Information Agent">>),
      El("text_input", <<"Name">>),
      El("number_input", <<"Age">>),
      El("selectbox", <<"Gender">>),
      El("tabs", <<"Chat with Agent", "Disease Info">>)>>
ChatBox == El("chat_input", <<"Describe your symptoms">>)
DiseaseField == El("text_input", <<"Enter Disease Name">>)

\* Mutant of Setup: the history is reset on every run.
SetupResetting ==
    /\ pc = "setup"
    /\ session_keys' = session_keys \cup {"chat_history"}
    /\ chat_history' = <<>>
    /\ page' = page \o HeaderElements
    /\ pc' = "t1_input"
    /\ UNCHANGED <<api_key, widgets, submitted, locals, runs, calls, hist0>>

\* Lines 21-37: page header, session state, sidebar widgets, tabs.
Setup ==
    /\ pc = "setup"
    /\ IF "chat_history" \notin session_keys
       THEN /\ session_keys' = session_keys \cup {"chat_history"}
            /\ chat_history' = <<>>
       ELSE UNCHANGED session
    /\ page' = page \o HeaderElements
    /\ pc' = "t1_input"
    /\ UNCHANGED <<api_key, widgets, submitted, locals, runs, calls, hist0>>

\* Lines 41-45: the chat box; a submitted input is appended as a user turn.
Tab1Input ==
    /\ pc = "t1_input"
    /\ user_input' = submitted
    /\ page' = Append(page, ChatBox)
    /\ IF Truthy(submitted)
       THEN /\ chat_history' = Append(chat_history, <<"user", submitted>>)
            /\ pc' = "t1_text"
       ELSE /\ chat_history' = chat_history
            /\ pc' = "t1_display"
    /\ UNCHANGED <<api_key, session_keys, widgets, submitted, text_response,
                   response_text, responses, extracted, runs, calls, hist0>>

\* Mutant of AssistantText: a failure is recorded without its message.
AssistantTextGeneric(outcome) ==
    IF outcome.ok THEN outcome.value
    ELSE Str(<<"Error generating medical info:">>)

\* Mutant of AssistantText: the returned text is recorded with a label.
AssistantTextLabelled(outcome) ==
    IF outcome.ok THEN Str(<<"Assistant:">> \o Format(outcome.value))
    ELSE Str(<<"Error generating medical info:">> \o outcome.exc.msg)

\* What the assistant turn holds after the text call.
AssistantText(outcome) ==
    IF outcome.ok THEN outcome.value
    ELSE Str(<<"Error generating medical info:">> \o outcome.exc.msg)

\* Lines 47-72: the text call; its text, or the error text, becomes the
\* assistant turn.
Tab1Text ==
    /\ pc = "t1_text"
    /\ calls' = Append(calls, Call("chat", "text", TextModel,
                                   TextPrompt(name, age, gender, user_input)))
    /\ \E outcome \in {Ok(t) : t \in Texts \cup {None}} \cup {Raise(e) : e \in RemoteErrors} :
          /\ text_response' = outcome
          /\ response_text' = AssistantText(outcome)
          /\ chat_history' = Append(chat_history, <<"assistant", AssistantText(outcome)>>)
    /\ pc' = "t1_display"
    /\ UNCHANGED <<api_key, session_keys, widgets, submitted, user_input,
                   responses, extracted, runs, page, hist0>>

\* Lines 75-82: render the history; the image sections follow only for a
\* submitted input.
Tab1Display ==
    /\ pc = "t1_display"
    /\ page' = page \o RenderHistory(chat_history)
    /\ pc' = IF Truthy(user_input) THEN "t1_nut" ELSE "t2_input"
    /\ UNCHANGED <<api_key, session, widgets, submitted, locals, runs, calls, hist0>>

\* An image section's generate_content call: it returns a response drawn
\* from `shapes`, assigned to the section's response variable, or raises,
\* which the section's except clause renders (nothing is assigned).
ImageCall(here, tab, kind, prompt, shapes, rvar, after) ==
    /\ pc = here
    /\ calls' = Append(calls, Call(tab, kind, ImageModel, prompt))
    /\ \/ \E r \in shapes :
             /\ AssignResponse(rvar, r)
             /\ pc' = here \o "_x"
             /\ page' = page
       \/ \E e \in RemoteErrors :
             /\ UNCHANGED responses
             /\ pc' = after
             /\ page' = Append(page, El("error", ImageErrorPrefix(kind) \o e.msg))
    /\ UNCHANGED <<api_key, session, widgets, submitted, user_input, text_response,
                   response_text, extracted, runs, hist0>>

\* Mutant of ImageExtract: an exception of the extraction or of the decode
\* is not caught and ends the run.
ImageExtractUncaught(here, kind, rvar, bvar, after) ==
    /\ pc = here
    /\ IF ExtractImage(ResponseOf(rvar)).ok
       THEN AssignBytes(bvar, ExtractImage(ResponseOf(rvar)).value)
       ELSE UNCHANGED extracted
    /\ IF RenderImage(kind, ResponseOf(rvar))[1].kind = "error"
       THEN page' = page /\ pc' = "crashed"
       ELSE page' = page \o RenderImage(kind, ResponseOf(rvar)) /\ pc' = after
    /\ UNCHANGED <<api_key, session, widgets, submitted, user_input, text_response,
                   response_text, responses, runs, calls, hist0>>

\* The rest of the try block: extract (the bytes variable is assigned only
\* when the extraction returns), decode, render.
ImageExtract(here, kind, rvar, bvar, after) ==
    /\ pc = here
    /\ IF ExtractImage(ResponseOf(rvar)).ok
       THEN AssignBytes(bvar, ExtractImage(ResponseOf(rvar)).value)
       ELSE UNCHANGED extracted
    /\ page' = page \o RenderImage(kind, ResponseOf(rvar))
    /\ pc' = after
    /\ UNCHANGED <<api_key, session, widgets, submitted, user_input, text_response,
                   response_text, responses, runs, calls, hist0>>

\* Lines 82-107 and 110-135.
Tab1NutCall(shapes) ==
    ImageCall("t1_nut", "chat", "nutrition",
              ChatNutritionPrompt(age, gender, user_input), shapes,
              "nutrition_response", "t1_med")
Tab1NutExtract ==
    ImageExtract("t1_nut_x", "nutrition", "nutrition_response", "img_bytes", "t1_med")
Tab1MedCall(shapes) ==
    ImageCall("t1_med", "chat", "medicine",
              ChatMedicinePrompt(user_input), shapes, "med_response", "t2_input")
Tab1MedExtract ==
    ImageExtract("t1_med_x", "medicine", "med_response", "med_img_bytes", "t2_input")

\* Mutant of Tab2Input: the lookup runs whatever the field holds.
Tab2InputUnguarded ==
    /\ pc = "t2_input"
    /\ page' = Append(page, DiseaseField)
    /\ pc' = "t2_text"
    /\ UNCHANGED <<api_key, session, widgets, submitted, locals, runs, calls, hist0>>

\* Lines 138-142: the disease field.
Tab2Input ==
    /\ pc = "t2_input"
    /\ page' = Append(page, DiseaseField)
    /\ pc' = IF Truthy(disease_name) THEN "t2_text" ELSE "footer"
    /\ UNCHANGED <<api_key, session, widgets, submitted, locals, runs, calls, hist0>>

\* Lines 143-163: the disease text call, rendered as markdown or as an error.
\* A response without text has .text None, which st.markdown shows as str().
Tab2Text ==
    /\ pc = "t2_text"
    /\ calls' = Append(calls, Call("disease", "text", TextModel, DiseasePrompt(disease_name)))
    /\ \E outcome \in {Ok(t) : t \in Texts \cup {None}} \cup {Raise(e) : e \in RemoteErrors} :
          page' = Append(page,
                    IF outcome.ok THEN El("markdown", Format(outcome.value))
                    ELSE El("error", <<"Error generating disease info:">> \o outcome.exc.msg))
    /\ pc' = "t2_nut"
    /\ UNCHANGED <<api_key, session, widgets, submitted, locals, runs, hist0>>

\* Lines 165-189 and 191-215.
Tab2NutCall(shapes) ==
    ImageCall("t2_nut", "disease", "nutrition",
              DiseaseNutritionPrompt(age, gender, disease_name), shapes,
              "img_response", "t2_med")
Tab2NutExtract ==
    ImageExtract("t2_nut_x", "nutrition", "img_response", "img_bytes", "t2_med")
Tab2MedCall(shapes) ==
    ImageCall("t2_med", "disease", "medicine",
              DiseaseMedicinePrompt(disease_name), shapes, "med_response", "footer")
Tab2MedExtract ==
    ImageExtract("t2_med_x", "medicine", "med_response", "med_img_bytes", "footer")

\* Line 218.
Footer ==
    /\ pc = "footer"
    /\ page' = Append(page, El("footer", <<"Powered by Gemini 2.5 Flash & Gemini Image API">>))
    /\ pc' = "done"
    /\ UNCHANGED <<api_key, session, widgets, submitted, locals, runs, calls, hist0>>

Next ==
    \/ Load \/ SubmitChat \/ EditDisease \/ EditSidebar
    \/ CheckKey \/ Setup
    \/ Tab1Input \/ Tab1Text \/ Tab1Display
    \/ Tab1NutCall(CoreResponses) \/ Tab1NutExtract
    \/ Tab1MedCall(CoreResponses) \/ Tab1MedExtract
    \/ Tab2Input \/ Tab2Text
    \/ Tab2NutCall(CoreResponses) \/ Tab2NutExtract
    \/ Tab2MedCall(CoreResponses) \/ Tab2MedExtract
    \/ Footer

Spec == Init /\ [][Next]_vars

\* ------------------------------------------------- the extraction in isolation
\* SpecExtract starts where an image call has just returned, in each of the
\* four image sections, with every response shape within MaxCands and
\* MaxParts, and runs the rest of that section's try block.  The states are
\* those of a session's second run: the chat box submitted (text call
\* succeeded, nutrition call failed before the medicine section), or the
\* disease field filled in.
ReturnedIn(section, r, q, d, t, e) ==
    LET chat == section \in {"t1_nut_x", "t1_med_x"}
        h == IF chat THEN <<<<"user", q>>, <<"assistant", t>>>> ELSE <<>>
        upto == IF chat
                THEN HeaderElements \o <<ChatBox>> \o RenderHistory(h)
                ELSE HeaderElements \o <<ChatBox, DiseaseField, El("markdown", Format(t))>>
        first == IF chat
                 THEN <<Call("chat", "text", TextModel, TextPrompt(Str(<<>>), 0, "Male", q)),
                        Call("chat", "nutrition", ImageModel, ChatNutritionPrompt(0, "Male", q))>>
                 ELSE <<Call("disease", "text", TextModel, DiseasePrompt(d)),
                        Call("disease", "nutrition", ImageModel,
                             DiseaseNutritionPrompt(0, "Male", d))>>
        med == section \in {"t1_med_x", "t2_med_x"}
    IN  /\ api_key = Str(<<"key">>)
        /\ session_keys = {"chat_history"}
        /\ chat_history = h
        /\ name = Str(<<>>) /\ age = 0 /\ gender = "Male"
        /\ disease_name = IF chat THEN Str(<<>>) ELSE d
        /\ submitted = IF chat THEN q ELSE None
        /\ user_input = IF chat THEN q ELSE None
        /\ text_response = IF chat THEN Ok(t) ELSE NoOutcome
        /\ response_text = IF chat THEN t ELSE None
        /\ nutrition_response = IF section = "t1_nut_x" THEN r ELSE Unassigned
        /\ img_response = IF section = "t2_nut_x" THEN r ELSE Unassigned
        /\ med_response = IF med THEN r ELSE Unassigned
        /\ img_bytes = Unbound /\ med_img_bytes = Unbound
        /\ pc = section
        /\ runs = 2
        /\ page = IF med THEN Append(upto, El("error", ImageErrorPrefix("nutrition") \o e.msg))
                  ELSE upto
        /\ calls = IF ~med THEN first
                   ELSE Append(first, IF chat
                                      THEN Call("chat", "medicine", ImageModel,
                                                ChatMedicinePrompt(q))
                                      ELSE Call("disease", "medicine", ImageModel,
                                                DiseaseMedicinePrompt(d)))
        /\ hist0 = <<>>

InitExtract ==
    \E section \in {"t1_nut_x", "t1_med_x", "t2_nut_x", "t2_med_x"}, r \in AllResponses,
       q \in ChatInputs, d \in DiseaseNames, t \in Texts, e \in RemoteErrors :
        ReturnedIn(section, r, q, d, t, e)

NextExtract ==
    \/ Tab1NutExtract \/ Tab1MedExtract \/ Tab2NutExtract \/ Tab2MedExtract

SpecExtract == InitExtract /\ [][NextExtract]_vars

\* ------------------------------------------------------------------ claims
\* Vocabulary of the claims, stated apart from the model's own operators.
Empty(x) == x = None \/ x = Str(<<>>)
IsChatCall(c) == c.tab = "chat"
IsDiseaseCall(c) == c.tab = "disease"
ChatCalls == SelectSeq(calls, IsChatCall)
DiseaseCalls == SelectSeq(calls, IsDiseaseCall)
Kinds(cs) == [i \in 1..Len(cs) |-> cs[i].kind]
TextThenImages == <<"text", "nutrition", "medicine">>
Last(q) == q[Len(q)]
Failed(outcome) == ~outcome.ok /\ "exc" \in DOMAIN outcome
FooterElement == El("footer", <<"Powered by Gemini 2.5 Flash & Gemini Image API">>)
InputWidgets == {"text_input", "number_input", "selectbox", "chat_input"}

\* An element an image section renders as its result.
IsImageOutcome(e) ==
    \/ e.kind \in {"image", "warning"}
    \/ e.kind = "error" /\ e.body[1] \in {"Nutrition image error:", "Medicine image error:"}
ImageOutcomes == Cardinality({i \in DOMAIN page : IsImageOutcome(page[i])})
DecodeError(kind) == El("error", ImageErrorPrefix(kind) \o <<"cannot identify image file">>)
Shown(e) == \E i \in DOMAIN page : page[i] = e

\* The four image sections: the position where the call has returned and
\* the rest of the try block is about to run, and the variables it uses.
ImageSections ==
    {[at |-> "t1_nut_x", kind |-> "nutrition", rvar |-> "nutrition_response",
      bvar |-> "img_bytes", after |-> "t1_med"],
     [at |-> "t1_med_x", kind |-> "medicine", rvar |-> "med_response",
      bvar |-> "med_img_bytes", after |-> "t2_input"],
     [at |-> "t2_nut_x", kind |-> "nutrition", rvar |-> "img_response",
      bvar |-> "img_bytes", after |-> "t2_med"],
     [at |-> "t2_med_x", kind |-> "medicine", rvar |-> "med_response",
      bvar |-> "med_img_bytes", after |-> "footer"]}

\* A part that carries inline image data.
Carries(part) ==
    /\ part.inline_data.t # "None"
    /\ part.inline_data.data.t = "bytes"
    /\ part.inline_data.data.v # <<>>
PartsOf(cand) == IF cand.parts.t = "None" THEN <<>> ELSE cand.parts.v
RECURSIVE AllParts(_)
AllParts(cs) == IF cs = <<>> THEN <<>> ELSE PartsOf(Head(cs)) \o AllParts(Tail(cs))
FirstCarrying(ps) ==
    LET I == {i \in 1..Len(ps) : Carries(ps[i])}
    IN  IF I = {} THEN None
        ELSE ps[CHOOSE i \in I : \A j \in I : i <= j].inline_data.data
NoImagePart(r) == FirstCarrying(AllParts(r.candidates)) = None

\* C1: with an empty chat input no chat-mode call is issued, and with an
\* empty disease name no disease-mode call is issued, whatever the user
\* context and the history.
C1_EmptyTopicNoCall ==
    /\ Empty(submitted) => ChatCalls = <<>>
    /\ Empty(disease_name) => DiseaseCalls = <<>>

\* C1 witness: a finished run with both topics empty, a named user and a
\* non-empty history, which issued no call.
C1_Witness ==
    /\ pc = "done" /\ Empty(submitted) /\ Empty(disease_name)
    /\ name = Str(<<"Ann">>) /\ chat_history # <<>> /\ calls = <<>>

\* C2: when the chat text call raises, the run has appended an assistant
\* turn whose text contains the exception's message, and it ends having
\* issued the nutrition and the medicine image calls after the text call.
C2_TextFailureRecorded ==
    Failed(text_response) =>
        /\ Len(chat_history) = Len(hist0) + 2
        /\ Last(chat_history)[1] = "assistant"
        /\ Last(chat_history)[2].t = "str"
        /\ Contains(Last(chat_history)[2].v, text_response.exc.msg)
        /\ pc \notin {"idle", "halted", "done"} => ENABLED Next
        /\ pc = "done" => Kinds(ChatCalls) = TextThenImages

\* C2 witness: a finished run whose text call failed with the quota message.
C2_Witness ==
    /\ pc = "done" /\ Failed(text_response)
    /\ Contains(Last(chat_history)[2].v, <<"429", "quota">>)
    /\ Kinds(ChatCalls) = TextThenImages

\* C3: whatever the outcomes of the calls and of the decode steps, a run
\* never stops before the footer, and at the footer every active mode has
\* issued its three calls and each of its image sections has rendered its
\* result.
C3_AllSectionsAttempted ==
    /\ pc \notin {"idle", "halted", "done"} => ENABLED Next
    /\ pc = "done" =>
          /\ Last(page) = FooterElement
          /\ ~Empty(submitted) => Kinds(ChatCalls) = TextThenImages
          /\ ~Empty(disease_name) => Kinds(DiseaseCalls) = TextThenImages
          /\ ImageOutcomes = (IF Empty(submitted) THEN 0 ELSE 2)
                             + (IF Empty(disease_name) THEN 0 ELSE 2)

\* C3 witness: a finished run with both modes active in which the chat text
\* call failed, the chat nutrition call failed and a medicine image did not
\* decode.
C3_Witness ==
    /\ pc = "done" /\ Failed(text_response) /\ Len(calls) = 6
    /\ Shown(El("error", <<"Nutrition image error:", "429", "quota">>))
    /\ Shown(DecodeError("medicine"))

\* C4: a returned image response with no image-bearing part (no candidate,
\* no part list, no parts, or text parts only) renders the neutral
\* "No ... image received." notice, never the "... image error" outcome.
C4_NoImagePartGivesNotice ==
    [][\A sec \in ImageSections :
          pc = sec.at /\ NoImagePart(ResponseOf(sec.rvar)) =>
              page' = Append(page, El("warning", NoImageNotice(sec.kind)))]_vars

\* C5: a run issues at most three calls, in the order text, nutrition
\* image, medicine image, each once.
C5_AtMostThreeCalls ==
    /\ Len(calls) <= 3
    /\ IsPrefix(Kinds(calls), TextThenImages)

\* C6: with the API key absent or empty a run halts on the error message
\* before any input widget exists, no call is issued and the conversation
\* history is neither created nor changed.
C6_NoKeyHalts ==
    Empty(api_key) =>
        /\ pc \in {"idle", "check_key", "halted"}
        /\ calls = <<>>
        /\ session_keys = {} /\ chat_history = <<>>
        /\ \A i \in DOMAIN page : page[i].kind \notin InputWidgets
        /\ pc = "halted" => page = <<El("error", <<"Missing GOOGLE_API_KEY in .env">>)>>

\* C6 witness: a second run halted with the key set to the empty string.
C6_Witness ==
    pc = "halted" /\ api_key = Str(<<>>) /\ runs = 2 /\ Len(page) = 1

\* C7: when the chat text call returns text T, the run has appended exactly
\* the user turn of the submitted input followed by one assistant turn whose
\* text is T itself.
C7_ExactTextAppended ==
    text_response.ok =>
        chat_history = hist0 \o <<<<"user", submitted>>, <<"assistant", text_response.value>>>>

\* C7 witness: a finished run, on a non-empty history, whose text call
\* returned "Rest and hydration".
C7_Witness ==
    /\ pc = "done" /\ hist0 # <<>>
    /\ text_response = Ok(Str(<<"Rest", "and", "hydration">>))
    /\ Last(chat_history) = <<"assistant", Str(<<"Rest", "and", "hydration">>)>>

\* What a run has done to the history: nothing without a chat input, and by
\* its end a user turn then an assistant turn with one.
C8_RunDelta ==
    /\ IsPrefix(hist0, chat_history)
    /\ Empty(submitted) => chat_history = hist0
    /\ pc = "done" /\ ~Empty(submitted) =>
          /\ Len(chat_history) = Len(hist0) + 2
          /\ chat_history[Len(hist0) + 1][1] = "user"
          /\ chat_history[Len(hist0) + 2][1] = "assistant"

\* C8: the history is append-only over every step of every run of a
\* session; a run with a chat input appends a user turn and an assistant
\* turn, a run without one (a disease lookup included) leaves it unchanged.
C8_HistoryAppendOnly ==
    [](C8_RunDelta) /\ [][IsPrefix(chat_history, chat_history')]_vars

\* C8 witness: a finished disease-lookup run, three calls issued, on a
\* history of two turns it left unchanged.
C8_Witness ==
    /\ pc = "done" /\ Empty(submitted) /\ Len(calls) = 3
    /\ Len(chat_history) = 2 /\ chat_history = hist0

\* The extracted bytes do not decode as an image.
Undecodable(b) == b.t = "bytes" /\ b.v # <<>> /\ b.v[1] \notin {"JPEG", "PNG"}

\* The response has a first candidate with a part list: the extraction
\* expression returns instead of raising.
HasPartList(r) == r.candidates # <<>> /\ r.candidates[1].parts.t # "None"

\* The bytes a returned response's first candidate hands to the decode step.
Received(r) == IF HasPartList(r) THEN FirstCarrying(PartsOf(r.candidates[1])) ELSE None

\* C9 as stated: an undecodable image is rendered as a warning, an outcome
\* other than the error of a failed call.
C9_DecodeFailureIsWarning ==
    [][\A sec \in ImageSections :
          pc = sec.at /\ Undecodable(Received(ResponseOf(sec.rvar))) =>
              Last(page').kind = "warning"]_vars

\* After a decode failure the run goes on to the footer, every call of its
\* active modes issued.
C9_PageContinues ==
    Shown(DecodeError("nutrition")) \/ Shown(DecodeError("medicine")) =>
        /\ pc # "done" => ENABLED Next
        /\ pc = "done" =>
              /\ Last(page) = FooterElement
              /\ ~Empty(submitted) => Kinds(ChatCalls) = TextThenImages
              /\ ~Empty(disease_name) => Kinds(DiseaseCalls) = TextThenImages

\* C9 amended: an undecodable image is rendered by the section's error
\* outcome, "<Section> image error: <message>", the one a failed call gets;
\* the run goes on to the footer with every call of its active modes issued.
C9_DecodeFailureIsError ==
    /\ [][\A sec \in ImageSections :
             pc = sec.at /\ Undecodable(Received(ResponseOf(sec.rvar))) =>
                 /\ page' = Append(page, DecodeError(sec.kind))
                 /\ pc' = sec.after]_vars
    /\ [](C9_PageContinues)

\* C9 witness: a finished chat run whose nutrition image did not decode and
\* whose medicine section still rendered an image.
C9_Witness ==
    /\ pc = "done" /\ Shown(DecodeError("nutrition"))
    /\ Kinds(ChatCalls) = TextThenImages
    /\ Shown(El("markdown", <<"Medicine Reference">>))

\* C10 as stated: what the extraction returns is the bytes of the first
\* part, in order over the response's candidates, that carries inline image
\* data.
C10_FirstOfResponse ==
    [][\A sec \in ImageSections :
          pc = sec.at /\ HasPartList(ResponseOf(sec.rvar)) =>
              BytesOf(sec.bvar)' = FirstCarrying(AllParts(ResponseOf(sec.rvar).candidates))]_vars

\* C10 amended: the extraction scans the parts of the first candidate only,
\* in order, and returns the bytes of the first of them that carries
\* non-empty inline data, None when none does; it returns nothing (the
\* bytes variable is not assigned) when the response has no first candidate
\* or that candidate no part list; at most one image is rendered.
C10_FirstOfFirstCandidate ==
    [][\A sec \in ImageSections :
          pc = sec.at =>
              LET r == ResponseOf(sec.rvar)
                  images(pg) == Cardinality({i \in DOMAIN pg : pg[i].kind = "image"})
              IN  /\ BytesOf(sec.bvar)' =
                        IF HasPartList(r) THEN FirstCarrying(PartsOf(r.candidates[1]))
                        ELSE BytesOf(sec.bvar)
                  /\ images(page') <= images(page) + 1
                  /\ Received(r) # None /\ ~Undecodable(Received(r)) =>
                        Last(page') = El("image", <<"base64", "PNG">> \o Tail(Received(r).v))]_vars

\* C10 witness: two candidates, the first holding a text part and then an
\* image part, whose bytes were extracted and rendered.
C10_Witness ==
    /\ pc = "t1_med"
    /\ Len(nutrition_response.candidates) = 2
    /\ PartsOf(nutrition_response.candidates[1]) = <<TextPart, Blob(JpegA)>>
    /\ img_bytes = JpegA
    /\ Last(page).kind = "image"

====
